---------------------------- MODULE Spec2Model ----------------------------
(***************************************************************************)
(* Model of two resources of the TFE Terraform provider:                   *)
(*   - tfe_team_access              (resource_tfe_team_access.go)          *)
(*   - tfe_notification_configuration                                      *)
(*                              (resource_tfe_notification_configuration.go)*)
(* One resource instance is followed through the host's life cycle: plan   *)
(* (diff, CustomizeDiff), apply (Create / Update / Delete), refresh (Read).*)
(* The diff object handed to CustomizeDiff and the ResourceData handed to  *)
(* the CRUD handlers are records; the remote API is one remote object that *)
(* may exist or not and a call outcome chosen by the environment.          *)
(***************************************************************************)
EXTENDS Naturals, Sequences, FiniteSets, TLC

VARIABLES
    kind,        \* which resource this instance is: "team_access" | "notification"
    taState,     \* team access: the stored state (ResourceData after the last handler)
    taConfig,    \* team access: the configuration of the running plan
    taDiff,      \* team access: the ResourceDiff of the running plan
    taRemote,    \* team access: the remote team-access object
    taPc,        \* team access: position in the plan/apply cycle
    taRuns,      \* team access: CustomizeDiff invocations on the current diff
    taDecision,  \* team access: what the last CustomizeDiff invocation saw and did
    taLast,      \* team access: the last CRUD handler, its API outcome and result
    ncState,     \* notification configuration: the stored state
    ncConfig,    \* notification configuration: the configuration of the running plan
    ncDiff,      \* notification configuration: the ResourceDiff of the running plan
    ncRemote,    \* notification configuration: the remote object
    ncPc,        \* notification configuration: position in the plan/apply cycle
    ncLast       \* notification configuration: the last CRUD handler and its result

taVars == <<taState, taConfig, taDiff, taRemote, taPc, taRuns, taDecision, taLast>>
ncVars == <<ncState, ncConfig, ncDiff, ncRemote, ncPc, ncLast>>
vars == <<kind, taState, taConfig, taDiff, taRemote, taPc, taRuns, taDecision, taLast,
          ncState, ncConfig, ncDiff, ncRemote, ncPc, ncLast>>

(***************************************************************************)
(* Bounds                                                                  *)
(***************************************************************************)
\* CustomizeDiff invocations the host may make on one diff object.
MaxCustomizeRuns == 2

(***************************************************************************)
(* Team access: values                                                     *)
(***************************************************************************)
\* The access levels the schema's ValidateFunc accepts in configuration.
FixedAccess == {"admin", "read", "plan", "write"}

\* tfe.AccessCustom
AccessCustom == "custom"

\* The fields of the permissions block.
PermissionFields == {"runs", "variables", "state_versions", "sentinel_mocks",
                     "workspace_locking"}

\* A permissions block all of whose fields are unset.
EmptyBlock == [f \in PermissionFields |-> ""]

TeamIds == {"team-1", "team-2"}
WorkspaceIds == {"ws-1", "ws-2"}

\* The ID the remote API gives a team-access object.
TeamAccessId == "tws-1"


\* Permission blocks a configuration may hold (a field "" is left unset):
\* an empty block, single-field blocks, and a block spelling out every field.
ConfigPermissionBlocks ==
    { EmptyBlock,
      [EmptyBlock EXCEPT !["runs"] = "plan"],
      [EmptyBlock EXCEPT !["runs"] = "apply", !["variables"] = "write"],
      [EmptyBlock EXCEPT !["workspace_locking"] = "true"],
      [runs |-> "read", variables |-> "read", state_versions |-> "read",
       sentinel_mocks |-> "none", workspace_locking |-> "false"] }

\* Schema of tfe_team_access: "access" and "permissions" are Optional and
\* conflict with each other; "access" is validated against the fixed levels;
\* "team_id" and "workspace_id" are Required.
TAConfigs ==
    { c \in [access : FixedAccess \cup {""},
             permissions : {<<>>} \cup {<<b>> : b \in ConfigPermissionBlocks},
             team_id : TeamIds,
             workspace_id : WorkspaceIds] :
        ~(c.access # "" /\ c.permissions # <<>>) }

\* The stored state of a resource that does not exist (d.Id() == "").
TAEmptyState ==
    [id |-> "", access |-> "", permissions |-> <<>>, team_id |-> "", workspace_id |-> "",
     tainted |-> FALSE]

TANoConfig ==
    [access |-> "", permissions |-> <<>>, team_id |-> "team-1", workspace_id |-> "ws-1"]

TANoRemote ==
    [exists |-> FALSE, access |-> "", permissions |-> EmptyBlock, team_id |-> ""]

(***************************************************************************)
(* The remote API (go-tfe client and server), as the handlers see it       *)
(***************************************************************************)
\* The permissions the API computes for a fixed access level.
ServerPermissions(access) ==
    CASE access = "read" ->
           [runs |-> "read", variables |-> "read", state_versions |-> "read",
            sentinel_mocks |-> "none", workspace_locking |-> "false"]
      [] access = "plan" ->
           [runs |-> "plan", variables |-> "read", state_versions |-> "read",
            sentinel_mocks |-> "none", workspace_locking |-> "false"]
      [] OTHER ->
           [runs |-> "apply", variables |-> "write", state_versions |-> "write",
            sentinel_mocks |-> "read", workspace_locking |-> "true"]

\* The permissions of a custom access before any option overrides them.
CustomDefaults ==
    [runs |-> "read", variables |-> "none", state_versions |-> "none",
     sentinel_mocks |-> "none", workspace_locking |-> "false"]

\* Options laid over a base permission set: an option "" is not sent.
Overlay(base, options) ==
    [f \in PermissionFields |-> IF options[f] # "" THEN options[f] ELSE base[f]]

\* TeamAccess.Add: the object the API creates from the options.
ServerAdd(access, options, team) ==
    [exists |-> TRUE,
     access |-> access,
     permissions |-> IF access = AccessCustom
                       THEN Overlay(CustomDefaults, options)
                       ELSE ServerPermissions(access),
     team_id |-> team]

\* TeamAccess.Update: the object after the API applied the options.
ServerUpdate(remote, access, options) ==
    [remote EXCEPT
       !.access = access,
       !.permissions = IF access = AccessCustom
                         THEN Overlay(remote.permissions, options)
                         ELSE ServerPermissions(access)]

(***************************************************************************)
(* The ResourceDiff of a plan (schemaMap.Diff over the schema's flags)     *)
(***************************************************************************)
TANoDiff ==
    [accessOld |-> "", accessNew |-> "", accessComputed |-> FALSE,
     permsOld |-> <<>>, permsNew |-> <<>>, permsComputed |-> FALSE,
     teamOld |-> "", teamNew |-> "", wsOld |-> "", wsNew |-> "",
     requiresNew |-> FALSE, id |-> ""]

\* "access" is Optional and Computed: a configured value is the new value; an
\* unset one keeps the stored value, and is unknown for a resource not yet created.
\* "permissions" is an Optional and Computed list of at most one block whose
\* fields are Optional and Computed: an unset field keeps its stored value.
\* "team_id" and "workspace_id" are ForceNew.
TADiffOf(state, cfg) ==
    LET oldBlock == IF state.permissions = <<>> THEN EmptyBlock ELSE state.permissions[1]
    IN  [accessOld |-> state.access,
         accessNew |-> IF cfg.access # "" THEN cfg.access ELSE state.access,
         accessComputed |-> cfg.access = "" /\ state.access = "" /\ state.id = "",
         permsOld |-> state.permissions,
         permsNew |-> IF cfg.permissions = <<>>
                        THEN state.permissions
                        ELSE << Overlay(oldBlock, cfg.permissions[1]) >>,
         permsComputed |-> cfg.permissions = <<>> /\ state.permissions = <<>>,
         teamOld |-> state.team_id,
         teamNew |-> cfg.team_id,
         wsOld |-> state.workspace_id,
         wsNew |-> cfg.workspace_id,
         requiresNew |-> state.id # "" /\ (state.team_id # cfg.team_id
                                           \/ state.workspace_id # cfg.workspace_id),
         id |-> state.id]

\* d.GetOk("access"): the value is known and not the zero value.
GetOkAccess(d) == ~d.accessComputed /\ d.accessNew # ""

\* d.HasChange("access"): old and new value differ (an unknown new value reads "").
HasChangeAccess(d) == d.accessOld # (IF d.accessComputed THEN "" ELSE d.accessNew)

\* d.HasChange("permissions.0"): the stored and the planned block differ.
HasChangePermissions0(d) ==
    d.permsOld # (IF d.permsComputed THEN <<>> ELSE d.permsNew)

\* d.GetOk("permissions"): the list is known and not empty.
GetOkPermissions(d) == ~d.permsComputed /\ d.permsNew # <<>>

\* d.SetNewComputed("permissions")
SetNewComputedPermissions(d) == [d EXCEPT !.permsComputed = TRUE, !.permsNew = <<>>]

\* d.SetNew("access", tfe.AccessCustom)
SetNewAccessCustom(d) == [d EXCEPT !.accessNew = AccessCustom, !.accessComputed = FALSE]

(***************************************************************************)
(* CustomizeDiff of tfe_team_access                                        *)
(***************************************************************************)
\* The outcome of one invocation: the diff as the handler leaves it, whether it
\* called SetNewComputed("permissions"), the value it gave SetNew("access", ...)
\* ("" when it did not call it), and the error it returned.
Outcome(d, forceCompute, override) ==
    [diff |-> d, forceCompute |-> forceCompute, override |-> override, err |-> "nil"]

\* Faulty variants of the handler, each one slip away from it; the properties
\* below are checked to fail on them.

\* Slip: a change of access to a fixed level does not mark permissions computed.
reconcileNoRecompute(d) ==
    IF GetOkAccess(d)
      THEN IF HasChangeAccess(d)
             THEN Outcome(d, FALSE, "")
             ELSE IF HasChangePermissions0(d)
                    THEN Outcome(SetNewAccessCustom(d), FALSE, AccessCustom)
                    ELSE Outcome(d, FALSE, "")
      ELSE IF GetOkPermissions(d)
             THEN Outcome(SetNewAccessCustom(d), FALSE, AccessCustom)
             ELSE Outcome(d, FALSE, "")

\* Slip: a change of the permissions block under an unchanged access is ignored.
reconcileIgnoresPermissionChange(d) ==
    IF GetOkAccess(d)
      THEN IF HasChangeAccess(d)
             THEN IF d.accessNew # AccessCustom
                    THEN Outcome(SetNewComputedPermissions(d), TRUE, "")
                    ELSE Outcome(d, FALSE, "")
             ELSE Outcome(d, FALSE, "")
      ELSE IF GetOkPermissions(d)
             THEN Outcome(SetNewAccessCustom(d), FALSE, AccessCustom)
             ELSE Outcome(d, FALSE, "")

\* Slip: a new resource with a permissions block is not given custom access.
reconcileNoCreateOverride(d) ==
    IF GetOkAccess(d)
      THEN IF HasChangeAccess(d)
             THEN IF d.accessNew # AccessCustom
                    THEN Outcome(SetNewComputedPermissions(d), TRUE, "")
                    ELSE Outcome(d, FALSE, "")
             ELSE IF HasChangePermissions0(d)
                    THEN Outcome(SetNewAccessCustom(d), FALSE, AccessCustom)
                    ELSE Outcome(d, FALSE, "")
      ELSE Outcome(d, FALSE, "")

\* Slip: an unchanged access is set to custom without looking at the permissions.
reconcileAlwaysCustom(d) ==
    IF GetOkAccess(d)
      THEN IF HasChangeAccess(d)
             THEN IF d.accessNew # AccessCustom
                    THEN Outcome(SetNewComputedPermissions(d), TRUE, "")
                    ELSE Outcome(d, FALSE, "")
             ELSE Outcome(SetNewAccessCustom(d), FALSE, AccessCustom)
      ELSE IF GetOkPermissions(d)
             THEN Outcome(SetNewAccessCustom(d), FALSE, AccessCustom)
             ELSE Outcome(d, FALSE, "")

\* Slip: any change of access marks permissions computed, a change to custom too.
reconcileRecomputeOnAnyChange(d) ==
    IF GetOkAccess(d)
      THEN IF HasChangeAccess(d)
             THEN Outcome(SetNewComputedPermissions(d), TRUE, "")
             ELSE IF HasChangePermissions0(d)
                    THEN Outcome(SetNewAccessCustom(d), FALSE, AccessCustom)
                    ELSE Outcome(d, FALSE, "")
      ELSE IF GetOkPermissions(d)
             THEN Outcome(SetNewAccessCustom(d), FALSE, AccessCustom)
             ELSE Outcome(d, FALSE, "")

\* resourceTFETeamAccess.CustomizeDiff
setCustomOrComputedPermissions(d) ==
    IF GetOkAccess(d)
      THEN IF HasChangeAccess(d)
             THEN IF d.accessNew # AccessCustom
                    THEN Outcome(SetNewComputedPermissions(d), TRUE, "")
                    ELSE Outcome(d, FALSE, "")
             ELSE IF HasChangePermissions0(d)
                    THEN Outcome(SetNewAccessCustom(d), FALSE, AccessCustom)
                    ELSE Outcome(d, FALSE, "")
      ELSE IF GetOkPermissions(d)
             THEN Outcome(SetNewAccessCustom(d), FALSE, AccessCustom)
             ELSE Outcome(d, FALSE, "")

\* What an invocation saw in the diff, with what it did.
DecisionOf(d, out) ==
    [hasAccessSet |-> GetOkAccess(d),
     accessChanged |-> HasChangeAccess(d),
     accessOld |-> d.accessOld,
     accessNew |-> IF d.accessComputed THEN "" ELSE d.accessNew,
     permissionsChanged |-> HasChangePermissions0(d),
     permissionsPresent |-> GetOkPermissions(d),
     before |-> d,
     forceCompute |-> out.forceCompute,
     override |-> out.override,
     err |-> out.err]

TANoDecision == DecisionOf(TANoDiff, Outcome(TANoDiff, FALSE, ""))

(***************************************************************************)
(* The ResourceData the CRUD handlers of tfe_team_access receive           *)
(***************************************************************************)
\* d.Get("access") on the planned data: an unknown value reads "".
PlannedAccess(d) == IF d.accessComputed THEN "" ELSE d.accessNew

\* The planned data once Create has called d.SetId: the planned values that are
\* known. It is what a Create that fails after d.SetId leaves behind, and the
\* host marks such a resource tainted.
TAPlannedState(state, d, id) ==
    [id |-> id,
     tainted |-> state.tainted,
     access |-> IF d.accessComputed THEN state.access ELSE d.accessNew,
     permissions |-> IF d.permsComputed THEN state.permissions ELSE d.permsNew,
     team_id |-> d.teamNew,
     workspace_id |-> d.wsNew]

\* Create: the options built from d.GetOk("permissions"): a string field is sent
\* when it is not "", workspace_locking always (the zero value is false).
CreateOptions(d) ==
    IF GetOkPermissions(d)
      THEN [f \in PermissionFields |->
              IF f = "workspace_locking" /\ d.permsNew[1][f] = ""
                THEN "false" ELSE d.permsNew[1][f]]
      ELSE EmptyBlock

\* Update: a field is sent when d.HasChange("permissions.0.<field>") and
\* d.GetOk (d.GetOkExists for workspace_locking) finds it.
UpdateOptions(d) ==
    LET old == IF d.permsOld = <<>> THEN EmptyBlock ELSE d.permsOld[1]
        new == IF d.permsComputed \/ d.permsNew = <<>> THEN EmptyBlock ELSE d.permsNew[1]
    IN  [f \in PermissionFields |-> IF old[f] # new[f] THEN new[f] ELSE ""]

\* The outcome of TeamAccess.Read for the stored ID.
ReadOutcomes(remote) == IF remote.exists THEN {"ok", "error"} ELSE {"notfound", "error"}

\* Slip: Read reports a remote object that is gone as an error.
teamAccessReadNotFoundIsError(d, remote, outcome) ==
    CASE outcome \in {"notfound", "error"} -> [state |-> d, err |-> "read"]
      [] OTHER -> [state |-> [d EXCEPT !.access = remote.access,
                                       !.permissions = <<remote.permissions>>,
                                       !.team_id = remote.team_id],
                   err |-> "nil"]

\* The handler on the data d (a state record) with the answer of TeamAccess.Read.
resourceTFETeamAccessRead(d, remote, outcome) ==
    CASE outcome = "notfound" -> [state |-> TAEmptyState, err |-> "nil"]
      [] outcome = "error" -> [state |-> d, err |-> "read"]
      [] OTHER -> [state |-> [d EXCEPT !.access = remote.access,
                                       !.permissions = <<remote.permissions>>,
                                       !.team_id = remote.team_id],
                   err |-> "nil"]

\* What the host stores after Create: a resource whose Create failed after
\* d.SetId is kept and marked tainted.
Stored(r) ==
    IF r.err # "nil" /\ r.state.id # "" THEN [r.state EXCEPT !.tainted = TRUE] ELSE r.state

\* The handler with the answer of TeamAccess.Remove.
resourceTFETeamAccessDelete(outcome) == IF outcome = "error" THEN "delete" ELSE "nil"

TANoLast == [op |-> "none", api |-> "none", err |-> "nil", accessOld |-> "", accessNew |-> ""]

TALastOf(op, api, err, d) ==
    [op |-> op, api |-> api, err |-> err, accessOld |-> d.accessOld,
     accessNew |-> PlannedAccess(d)]

(***************************************************************************)
(* Team access: the plan                                                   *)
(***************************************************************************)
\* The host diffs the stored state against a configuration. A tainted resource
\* is planned as a new one that replaces it.
TAPlan(cfg) ==
    /\ kind = "team_access"
    /\ taPc = "idle"
    /\ taConfig' = cfg
    /\ taDiff' = IF taState.tainted
                   THEN [TADiffOf(TAEmptyState, cfg) EXCEPT !.requiresNew = TRUE]
                   ELSE TADiffOf(taState, cfg)
    /\ taPc' = "diffed"
    /\ taRuns' = 0
    /\ taDecision' = TANoDecision
    /\ UNCHANGED <<kind, taState, taRemote, taLast, ncVars>>

\* The host invokes CustomizeDiff on the diff; it may invoke it again.
TACustomizeDiff ==
    /\ kind = "team_access"
    /\ taPc \in {"diffed", "customized"}
    /\ taRuns < MaxCustomizeRuns
    /\ LET out == setCustomOrComputedPermissions(taDiff)
       IN  /\ taDiff' = out.diff
           /\ taDecision' = DecisionOf(taDiff, out)
    /\ taRuns' = taRuns + 1
    /\ taPc' = "customized"
    /\ UNCHANGED <<kind, taState, taConfig, taRemote, taLast, ncVars>>

\* A diff that requires a new resource is computed again as for a resource not
\* yet created, and customized again.
TARediff ==
    /\ kind = "team_access"
    /\ taPc = "customized"
    /\ taDiff.requiresNew
    /\ taDiff.id # ""
    /\ taDiff' = [TADiffOf(TAEmptyState, taConfig) EXCEPT !.requiresNew = TRUE]
    /\ taPc' = "diffed"
    /\ taRuns' = 0
    /\ taDecision' = TANoDecision
    /\ UNCHANGED <<kind, taState, taConfig, taRemote, taLast, ncVars>>

\* The plan is dropped without being applied.
TADiscard ==
    /\ kind = "team_access"
    /\ taPc = "customized"
    /\ taPc' = "idle"
    /\ taDiff' = TANoDiff
    /\ taConfig' = TANoConfig
    /\ taRuns' = 0
    /\ taDecision' = TANoDecision
    /\ UNCHANGED <<kind, taState, taRemote, taLast, ncVars>>

\* Whether the diff holds a change at all.
TADiffNonEmpty(d) ==
    \/ HasChangeAccess(d) \/ d.accessComputed
    \/ HasChangePermissions0(d) \/ d.permsComputed
    \/ d.teamOld # d.teamNew \/ d.wsOld # d.wsNew

\* The plan is over: the handler has run.
TAEndApply ==
    /\ taPc' = "idle"
    /\ taDiff' = TANoDiff
    /\ taConfig' = TANoConfig
    /\ taRuns' = 0
    /\ taDecision' = TANoDecision

(***************************************************************************)
(* Team access: the CRUD handlers                                          *)
(***************************************************************************)
\* The Create handler. fail names the API call that fails, if any.
resourceTFETeamAccessCreate(fail) ==
    /\ kind = "team_access"
    /\ \/ taPc = "customized" /\ taState.id = "" /\ ~taDiff.requiresNew
       \/ taPc = "replacing"
    /\ LET d == taDiff
           access == PlannedAccess(d)
           rejected == fail = "add" \/ access \notin (FixedAccess \cup {AccessCustom})
           added == ServerAdd(access, CreateOptions(d), d.teamNew)
           r == resourceTFETeamAccessRead(TAPlannedState(taState, d, TeamAccessId), added,
                               IF fail = "read" THEN "error" ELSE "ok")
       IN  IF fail \in {"workspace", "team"}
             THEN /\ taLast' = TALastOf("Create", "none", fail, d)
                  /\ UNCHANGED <<taState, taRemote>>
             ELSE IF rejected
                    THEN /\ taLast' = TALastOf("Create", "error", "add", d)
                         /\ UNCHANGED <<taState, taRemote>>
                    ELSE /\ taRemote' = added
                         /\ taState' = Stored(r)
                         /\ taLast' = TALastOf("Create", "ok", r.err, d)
    /\ TAEndApply
    /\ UNCHANGED <<kind, ncVars>>

\* The Update handler. The host calls it for an existing resource whose
\* diff holds a change and does not require a new resource.
resourceTFETeamAccessUpdate(fail) ==
    /\ kind = "team_access"
    /\ taPc = "customized"
    /\ taState.id # ""
    /\ ~taDiff.requiresNew
    /\ TADiffNonEmpty(taDiff)
    /\ LET d == taDiff
           access == PlannedAccess(d)
           outcome == IF fail THEN "error"
                      ELSE IF taRemote.exists THEN "ok" ELSE "notfound"
           updated == ServerUpdate(taRemote, access, UpdateOptions(d))
       IN  IF outcome = "ok"
             THEN /\ taRemote' = updated
                  /\ taState' = [TAPlannedState(taState, d, taState.id)
                                   EXCEPT !.permissions = <<updated.permissions>>]
                  /\ taLast' = TALastOf("Update", "ok", "nil", d)
             ELSE /\ taLast' = TALastOf("Update", outcome, "update", d)
                  /\ UNCHANGED <<taState, taRemote>>
    /\ TAEndApply
    /\ UNCHANGED <<kind, ncVars>>

\* resourceTFETeamAccessDelete, called to replace a resource whose diff requires
\* a new one; Create follows when it succeeds.
TAReplaceDelete(fail) ==
    /\ kind = "team_access"
    /\ taPc = "customized"
    /\ taState.id # ""
    /\ taDiff.requiresNew
    /\ taDiff.id = ""
    /\ LET outcome == IF fail THEN "error"
                      ELSE IF taRemote.exists THEN "ok" ELSE "notfound"
           err == resourceTFETeamAccessDelete(outcome)
       IN  /\ taLast' = TALastOf("Delete", outcome, err, taDiff)
           /\ IF err = "nil"
                THEN /\ taState' = TAEmptyState
                     /\ taRemote' = TANoRemote
                     /\ taPc' = "replacing"
                     /\ UNCHANGED <<taDiff, taConfig, taRuns, taDecision>>
                ELSE /\ TAEndApply
                     /\ UNCHANGED <<taState, taRemote>>
    /\ UNCHANGED <<kind, ncVars>>

\* resourceTFETeamAccessDelete, called to destroy the resource.
TADestroy(fail) ==
    /\ kind = "team_access"
    /\ taPc = "idle"
    /\ taState.id # ""
    /\ LET outcome == IF fail THEN "error"
                      ELSE IF taRemote.exists THEN "ok" ELSE "notfound"
           err == resourceTFETeamAccessDelete(outcome)
       IN  /\ taLast' = TALastOf("Delete", outcome, err, TANoDiff)
           /\ IF err = "nil"
                THEN taState' = TAEmptyState /\ taRemote' = TANoRemote
                ELSE UNCHANGED <<taState, taRemote>>
    /\ UNCHANGED <<kind, taConfig, taDiff, taPc, taRuns, taDecision, ncVars>>

\* resourceTFETeamAccessRead, called to refresh the stored state.
TARefresh(outcome) ==
    /\ kind = "team_access"
    /\ taPc = "idle"
    /\ taState.id # ""
    /\ outcome \in ReadOutcomes(taRemote)
    /\ LET r == resourceTFETeamAccessRead(taState, taRemote, outcome)
       IN  /\ taState' = r.state
           /\ taLast' = TALastOf("Read", outcome, r.err, TANoDiff)
    /\ UNCHANGED <<kind, taConfig, taDiff, taRemote, taPc, taRuns, taDecision, ncVars>>

\* The remote object is removed behind the provider's back.
TARemoteGone ==
    /\ kind = "team_access"
    /\ taPc \in {"idle", "customized"}
    /\ taRemote.exists
    /\ taRemote' = TANoRemote
    /\ UNCHANGED <<kind, taState, taConfig, taDiff, taPc, taRuns, taDecision, taLast, ncVars>>

(***************************************************************************)
(* Notification configuration: values                                      *)
(***************************************************************************)
\* tfe.NotificationDestinationTypeGeneric, tfe.NotificationDestinationTypeSlack
DestinationTypes == {"generic", "slack"}

NotificationDestinationTypeSlack == "slack"

\* An attribute the configuration does not set.
Unset == "(unset)"

\* The ID the remote API gives a notification configuration.
NotificationId == "nc-1"

\* Schema of tfe_notification_configuration: "name" and "destination_type" are
\* Required, "token" is Optional, "workspace_id" and "workspace_external_id"
\* are Optional, Computed and conflict with each other. ("enabled", "url" and
\* "triggers" are passed to the API and read back as "name" is.)
NCConfigs ==
    { c \in [name : {"n1", "n2"},
             destination_type : DestinationTypes,
             token : {"", "tok"},
             workspace_id : {Unset, ""} \cup WorkspaceIds,
             workspace_external_id : {Unset, ""} \cup WorkspaceIds] :
        c.workspace_id = Unset \/ c.workspace_external_id = Unset }

NCEmptyState ==
    [id |-> "", name |-> "", destination_type |-> "", token |-> "",
     workspace_id |-> "", workspace_external_id |-> "", tainted |-> FALSE]

NCNoConfig ==
    [name |-> "n1", destination_type |-> "generic", token |-> "",
     workspace_id |-> Unset, workspace_external_id |-> Unset]

NCNoRemote == [exists |-> FALSE, name |-> "", destination_type |-> "", workspace |-> ""]

NCNoDiff ==
    [nameOld |-> "", nameNew |-> "", destOld |-> "", destNew |-> "",
     tokenOld |-> "", tokenNew |-> "",
     wsOld |-> "", wsNew |-> "", wsComputed |-> FALSE,
     extOld |-> "", extNew |-> "", extComputed |-> FALSE,
     forcedNewKeys |-> {}, requiresNew |-> FALSE, id |-> ""]

NCNoLast == [op |-> "none", api |-> "none", err |-> "nil", calls |-> {}]

(***************************************************************************)
(* Notification configuration: the plan                                    *)
(***************************************************************************)
\* The new value of an Optional and Computed string: the configured value, or
\* the stored one when the configuration leaves the attribute unset.
NewOf(configured, stored) == IF configured # Unset THEN configured ELSE stored

\* schemaMap.Diff over the schema's flags; "destination_type" is ForceNew.
NCDiffOf(state, cfg) ==
    LET wsNew == NewOf(cfg.workspace_id, state.workspace_id)
        extNew == NewOf(cfg.workspace_external_id, state.workspace_external_id)
    IN  [nameOld |-> state.name, nameNew |-> cfg.name,
         destOld |-> state.destination_type, destNew |-> cfg.destination_type,
         tokenOld |-> state.token, tokenNew |-> cfg.token,
         wsOld |-> state.workspace_id, wsNew |-> wsNew,
         wsComputed |-> wsNew = "" /\ state.workspace_id = "" /\ state.id = "",
         extOld |-> state.workspace_external_id, extNew |-> extNew,
         extComputed |-> extNew = "" /\ state.workspace_external_id = "" /\ state.id = "",
         forcedNewKeys |-> {},
         requiresNew |-> state.id # "" /\ state.destination_type # cfg.destination_type,
         id |-> state.id]

\* The condition given to ForceNewIfChange("workspace_external_id", ...).
WorkspaceExternalIDCondition(old, new) == old # "" /\ new # ""

\* Slip: one non-empty side is enough to force a new resource.
workspaceIDConditionEither(old, new) == old # "" \/ new # ""

\* The condition given to ForceNewIfChange("workspace_id", ...).
WorkspaceIDCondition(old, new) == old # "" /\ new # ""

\* d.ForceNew(key): refused (the error is dropped) when the key has no change.
ForceNew(d, key, old, new) ==
    IF old # new
      THEN [d EXCEPT !.forcedNewKeys = @ \cup {key}, !.requiresNew = TRUE]
      ELSE d

\* CustomizeDiff of the resource: customdiff.Sequence of the two
\* ForceNewIfChange, "workspace_external_id" first.
NotificationCustomizeDiff(d) ==
    LET d1 == IF WorkspaceExternalIDCondition(d.extOld, d.extNew)
                THEN ForceNew(d, "workspace_external_id", d.extOld, d.extNew)
                ELSE d
    IN  IF WorkspaceIDCondition(d1.wsOld, d1.wsNew)
          THEN ForceNew(d1, "workspace_id", d1.wsOld, d1.wsNew)
          ELSE d1

\* The host diffs the stored state against a configuration. A tainted resource
\* is planned as a new one that replaces it.
NCPlan(cfg) ==
    /\ kind = "notification"
    /\ ncPc = "idle"
    /\ ncConfig' = cfg
    /\ ncDiff' = IF ncState.tainted
                   THEN [NCDiffOf(NCEmptyState, cfg) EXCEPT !.requiresNew = TRUE]
                   ELSE NCDiffOf(ncState, cfg)
    /\ ncPc' = "diffed"
    /\ UNCHANGED <<kind, ncState, ncRemote, ncLast, taVars>>

NCCustomizeDiff ==
    /\ kind = "notification"
    /\ ncPc = "diffed"
    /\ ncDiff' = NotificationCustomizeDiff(ncDiff)
    /\ ncPc' = "customized"
    /\ UNCHANGED <<kind, ncState, ncConfig, ncRemote, ncLast, taVars>>

\* A diff that requires a new resource is computed again as for a resource not
\* yet created, and customized again.
NCRediff ==
    /\ kind = "notification"
    /\ ncPc = "customized"
    /\ ncDiff.requiresNew
    /\ ncDiff.id # ""
    /\ ncDiff' = [NCDiffOf(NCEmptyState, ncConfig) EXCEPT !.requiresNew = TRUE]
    /\ ncPc' = "diffed"
    /\ UNCHANGED <<kind, ncState, ncConfig, ncRemote, ncLast, taVars>>

NCEndApply ==
    /\ ncPc' = "idle"
    /\ ncDiff' = NCNoDiff
    /\ ncConfig' = NCNoConfig

NCDiscard ==
    /\ kind = "notification"
    /\ ncPc = "customized"
    /\ NCEndApply
    /\ UNCHANGED <<kind, ncState, ncRemote, ncLast, taVars>>

NCDiffNonEmpty(d) ==
    \/ d.nameOld # d.nameNew \/ d.destOld # d.destNew \/ d.tokenOld # d.tokenNew
    \/ d.wsOld # d.wsNew \/ d.wsComputed
    \/ d.extOld # d.extNew \/ d.extComputed

(***************************************************************************)
(* Notification configuration: the CRUD handlers                           *)
(***************************************************************************)
\* The data of a planned resource, as d.Get reads it.
NCPlannedState(d, id) ==
    [id |-> id, name |-> d.nameNew, destination_type |-> d.destNew,
     token |-> d.tokenNew, workspace_id |-> d.wsNew,
     workspace_external_id |-> d.extNew, tainted |-> FALSE]

\* Slip: the token is refused for the other destination type.
tokenWithGeneric(token, destinationType) ==
    token # "" /\ destinationType # NotificationDestinationTypeSlack

\* "Throw error if token is set with destinationType of slack"
TokenWithSlack(token, destinationType) ==
    token # "" /\ destinationType = NotificationDestinationTypeSlack

\* The handler on the data d with the answer of NotificationConfigurations.Read.
resourceTFENotificationConfigurationRead(d, remote, outcome) ==
    CASE outcome = "notfound" -> [state |-> NCEmptyState, err |-> "nil"]
      [] outcome = "error" -> [state |-> d, err |-> "read"]
      [] OTHER -> [state |-> [d EXCEPT !.destination_type = remote.destination_type,
                                       !.name = remote.name,
                                       !.workspace_external_id = remote.workspace,
                                       !.workspace_id = remote.workspace],
                   err |-> "nil"]

\* The handler with the answer of NotificationConfigurations.Delete.
resourceTFENotificationConfigurationDelete(outcome) == IF outcome = "error" THEN "delete" ELSE "nil"

\* The Create handler. fail names the failing API call.
resourceTFENotificationConfigurationCreate(fail) ==
    /\ kind = "notification"
    /\ \/ ncPc = "customized" /\ ncState.id = "" /\ ~ncDiff.requiresNew
       \/ ncPc = "replacing"
    /\ LET d == ncDiff
           extOk == ~d.extComputed /\ d.extNew # ""
           wsOk == ~d.wsComputed /\ d.wsNew # ""
           workspaceID == IF extOk THEN d.extNew ELSE d.wsNew
           created == [exists |-> TRUE, name |-> d.nameNew,
                       destination_type |-> d.destNew, workspace |-> workspaceID]
           r == resourceTFENotificationConfigurationRead(NCPlannedState(d, NotificationId), created,
                                 IF fail = "read" THEN "error" ELSE "ok")
       IN  IF ~extOk /\ ~wsOk
             THEN /\ ncLast' = [op |-> "Create", api |-> "none", err |-> "workspace",
                                calls |-> {}]
                  /\ UNCHANGED <<ncState, ncRemote>>
             ELSE IF TokenWithSlack(d.tokenNew, d.destNew)
                    THEN /\ ncLast' = [op |-> "Create", api |-> "none", err |-> "token",
                                       calls |-> {}]
                         /\ UNCHANGED <<ncState, ncRemote>>
                    ELSE IF fail = "create"
                           THEN /\ ncLast' = [op |-> "Create", api |-> "error",
                                              err |-> "create", calls |-> {"Create"}]
                                /\ UNCHANGED <<ncState, ncRemote>>
                           ELSE /\ ncRemote' = created
                                /\ ncState' = Stored(r)
                                /\ ncLast' = [op |-> "Create", api |-> "ok", err |-> r.err,
                                              calls |-> {"Create", "Read"}]
    /\ NCEndApply
    /\ UNCHANGED <<kind, taVars>>

\* The Update handler. fail names the failing API call.
resourceTFENotificationConfigurationUpdate(fail) ==
    /\ kind = "notification"
    /\ ncPc = "customized"
    /\ ncState.id # ""
    /\ ~ncDiff.requiresNew
    /\ NCDiffNonEmpty(ncDiff)
    /\ LET d == ncDiff
           outcome == IF fail = "update" THEN "error"
                      ELSE IF ncRemote.exists THEN "ok" ELSE "notfound"
           updated == [ncRemote EXCEPT !.name = d.nameNew]
           r == resourceTFENotificationConfigurationRead(NCPlannedState(d, ncState.id), updated,
                                 IF fail = "read" THEN "error" ELSE "ok")
       IN  IF TokenWithSlack(d.tokenNew, d.destNew)
             THEN /\ ncLast' = [op |-> "Update", api |-> "none", err |-> "token",
                                calls |-> {}]
                  /\ UNCHANGED <<ncState, ncRemote>>
             ELSE IF outcome # "ok"
                    THEN /\ ncLast' = [op |-> "Update", api |-> outcome,
                                       err |-> "update", calls |-> {"Update"}]
                         /\ UNCHANGED <<ncState, ncRemote>>
                    ELSE /\ ncRemote' = updated
                         /\ ncState' = IF r.err = "nil" THEN r.state ELSE ncState
                         /\ ncLast' = [op |-> "Update", api |-> "ok", err |-> r.err,
                                       calls |-> {"Update", "Read"}]
    /\ NCEndApply
    /\ UNCHANGED <<kind, taVars>>

\* resourceTFENotificationConfigurationDelete, called to replace the resource.
NCReplaceDelete(fail) ==
    /\ kind = "notification"
    /\ ncPc = "customized"
    /\ ncState.id # ""
    /\ ncDiff.requiresNew
    /\ ncDiff.id = ""
    /\ LET outcome == IF fail THEN "error"
                      ELSE IF ncRemote.exists THEN "ok" ELSE "notfound"
           err == resourceTFENotificationConfigurationDelete(outcome)
       IN  /\ ncLast' = [op |-> "Delete", api |-> outcome, err |-> err,
                         calls |-> {"Delete"}]
           /\ IF err = "nil"
                THEN /\ ncState' = NCEmptyState
                     /\ ncRemote' = NCNoRemote
                     /\ ncPc' = "replacing"
                     /\ UNCHANGED <<ncDiff, ncConfig>>
                ELSE /\ NCEndApply
                     /\ UNCHANGED <<ncState, ncRemote>>
    /\ UNCHANGED <<kind, taVars>>

\* resourceTFENotificationConfigurationDelete, called to destroy the resource.
NCDestroy(fail) ==
    /\ kind = "notification"
    /\ ncPc = "idle"
    /\ ncState.id # ""
    /\ LET outcome == IF fail THEN "error"
                      ELSE IF ncRemote.exists THEN "ok" ELSE "notfound"
           err == resourceTFENotificationConfigurationDelete(outcome)
       IN  /\ ncLast' = [op |-> "Delete", api |-> outcome, err |-> err,
                         calls |-> {"Delete"}]
           /\ IF err = "nil"
                THEN ncState' = NCEmptyState /\ ncRemote' = NCNoRemote
                ELSE UNCHANGED <<ncState, ncRemote>>
    /\ UNCHANGED <<kind, ncConfig, ncDiff, ncPc, taVars>>

\* resourceTFENotificationConfigurationRead, called to refresh the stored state.
NCRefresh(outcome) ==
    /\ kind = "notification"
    /\ ncPc = "idle"
    /\ ncState.id # ""
    /\ outcome \in (IF ncRemote.exists THEN {"ok", "error"} ELSE {"notfound", "error"})
    /\ LET r == resourceTFENotificationConfigurationRead(ncState, ncRemote, outcome)
       IN  /\ ncState' = r.state
           /\ ncLast' = [op |-> "Read", api |-> outcome, err |-> r.err,
                         calls |-> {"Read"}]
    /\ UNCHANGED <<kind, ncConfig, ncDiff, ncRemote, ncPc, taVars>>

\* The remote object is removed behind the provider's back.
NCRemoteGone ==
    /\ kind = "notification"
    /\ ncPc \in {"idle", "customized"}
    /\ ncRemote.exists
    /\ ncRemote' = NCNoRemote
    /\ UNCHANGED <<kind, ncState, ncConfig, ncDiff, ncPc, ncLast, taVars>>

TANext ==
    \/ \E cfg \in TAConfigs : TAPlan(cfg)
    \/ TACustomizeDiff
    \/ TARediff
    \/ TADiscard
    \/ \E fail \in {"none", "workspace", "team", "add", "read"} : resourceTFETeamAccessCreate(fail)
    \/ \E fail \in BOOLEAN : resourceTFETeamAccessUpdate(fail)
    \/ \E fail \in BOOLEAN : TAReplaceDelete(fail)
    \/ \E fail \in BOOLEAN : TADestroy(fail)
    \/ \E outcome \in {"ok", "notfound", "error"} : TARefresh(outcome)
    \/ TARemoteGone

TAInit ==
    /\ taState = TAEmptyState
    /\ taConfig = TANoConfig
    /\ taDiff = TANoDiff
    /\ taRemote = TANoRemote
    /\ taPc = "idle"
    /\ taRuns = 0
    /\ taDecision = TANoDecision
    /\ taLast = TANoLast

NCNext ==
    \/ \E cfg \in NCConfigs : NCPlan(cfg)
    \/ NCCustomizeDiff
    \/ NCRediff
    \/ NCDiscard
    \/ \E fail \in {"none", "create", "read"} : resourceTFENotificationConfigurationCreate(fail)
    \/ \E fail \in {"none", "update", "read"} : resourceTFENotificationConfigurationUpdate(fail)
    \/ \E fail \in BOOLEAN : NCReplaceDelete(fail)
    \/ \E fail \in BOOLEAN : NCDestroy(fail)
    \/ \E outcome \in {"ok", "notfound", "error"} : NCRefresh(outcome)
    \/ NCRemoteGone

NCInit ==
    /\ ncState = NCEmptyState
    /\ ncConfig = NCNoConfig
    /\ ncDiff = NCNoDiff
    /\ ncRemote = NCNoRemote
    /\ ncPc = "idle"
    /\ ncLast = NCNoLast

(***************************************************************************)
(* The specification: one resource instance of either kind                 *)
(***************************************************************************)
Init == kind \in {"team_access", "notification"} /\ TAInit /\ NCInit

Next == TANext \/ NCNext

Spec == Init /\ [][Next]_vars

(***************************************************************************)
(* Properties                                                              *)
(***************************************************************************)
\* The state right after an invocation of the team-access CustomizeDiff.
TACustomized == kind = "team_access" /\ taPc = "customized"

\* C1: when an access value is set, access changed in this plan and its new
\* value is not "custom", the handler marks permissions as computed and leaves
\* the proposed access value alone, whatever the old value and the permissions.
C1_FixedAccessChangeRecomputes ==
    (/\ TACustomized
     /\ taDecision.hasAccessSet
     /\ taDecision.accessChanged
     /\ taDecision.accessNew # AccessCustom)
    => /\ taDecision.forceCompute
       /\ taDecision.override = ""
       /\ taDiff.permsComputed
       /\ PlannedAccess(taDiff) = taDecision.accessNew

\* C1 witness: access goes from "read" to "write", permissions unchanged, and
\* the handler has marked permissions computed.
C1_Witness ==
    /\ TACustomized
    /\ taDecision.hasAccessSet
    /\ taDecision.accessChanged
    /\ taDecision.accessOld = "read"
    /\ taDecision.accessNew = "write"
    /\ ~taDecision.permissionsChanged
    /\ taDiff.permsComputed

\* C2: when an access value is set, access did not change and the permissions
\* block changed, the handler sets the proposed access to "custom" and does not
\* mark permissions as computed.
C2_PermissionChangeSetsCustom ==
    (/\ TACustomized
     /\ taDecision.hasAccessSet
     /\ ~taDecision.accessChanged
     /\ taDecision.permissionsChanged)
    => /\ taDecision.override = AccessCustom
       /\ ~taDecision.forceCompute
       /\ PlannedAccess(taDiff) = AccessCustom
       /\ taDiff.permsComputed = taDecision.before.permsComputed
       /\ taDiff.permsNew = taDecision.before.permsNew

\* C2 witness: stored access "read", access not in the change, the block's runs
\* field changed, and the proposed access is now "custom".
C2_Witness ==
    /\ TACustomized
    /\ taDecision.hasAccessSet
    /\ ~taDecision.accessChanged
    /\ taDecision.accessOld = "read"
    /\ taDecision.permissionsChanged
    /\ taDecision.before.permsOld # <<>>
    /\ taDecision.before.permsOld[1]["runs"] # taDecision.before.permsNew[1]["runs"]
    /\ PlannedAccess(taDiff) = AccessCustom

\* C3: when no access value is set and a permissions block is present, the
\* handler sets the proposed access to "custom" and does not mark permissions
\* as computed.
C3_NewResourceWithPermissionsIsCustom ==
    (/\ TACustomized
     /\ ~taDecision.hasAccessSet
     /\ taDecision.permissionsPresent)
    => /\ taDecision.override = AccessCustom
       /\ ~taDecision.forceCompute
       /\ PlannedAccess(taDiff) = AccessCustom
       /\ ~taDiff.permsComputed
       /\ taDiff.permsNew = taDecision.before.permsNew

\* C3 witness: a resource not yet created, no access, a block with runs = "plan",
\* and the proposed access is now "custom".
C3_Witness ==
    /\ TACustomized
    /\ taState.id = ""
    /\ ~taDecision.hasAccessSet
    /\ taDecision.before.accessComputed
    /\ taDecision.permissionsPresent
    /\ taDecision.before.permsNew[1]["runs"] = "plan"
    /\ PlannedAccess(taDiff) = AccessCustom

\* The three cases in which the handler has nothing to do.
C4_CaseChangedToCustom ==
    taDecision.hasAccessSet /\ taDecision.accessChanged
    /\ taDecision.accessNew = AccessCustom

C4_CaseNothingChanged ==
    taDecision.hasAccessSet /\ ~taDecision.accessChanged
    /\ ~taDecision.permissionsChanged

C4_CaseNothingSet == ~taDecision.hasAccessSet /\ ~taDecision.permissionsPresent

\* C4: in the three no-change cases (access changed to "custom"; access and
\* permissions both unchanged; neither access nor a permissions block set) the
\* handler calls neither SetNewComputed nor SetNew and the diff is as it was.
C4_NoChangeCasesLeaveDiff ==
    (TACustomized
     /\ (C4_CaseChangedToCustom \/ C4_CaseNothingChanged \/ C4_CaseNothingSet))
    => /\ ~taDecision.forceCompute
       /\ taDecision.override = ""
       /\ taDiff = taDecision.before

\* C4 witness: the handler ran on a diff whose access had changed to "custom"
\* and left it alone.
C4_Witness ==
    /\ TACustomized
    /\ C4_CaseChangedToCustom
    /\ taDecision.accessOld \in FixedAccess
    /\ taDiff = taDecision.before

\* The user-supplied fields of the configured permissions block.
ExplicitFields(cfg) ==
    IF cfg.permissions = <<>> THEN {}
    ELSE {f \in PermissionFields : cfg.permissions[1][f] # ""}

\* A fixed access level with every permission left to the server.
FixedMode ==
    PlannedAccess(taDiff) \in FixedAccess /\ ExplicitFields(taConfig) = {}

\* Custom access with at least one permission given by the user.
CustomMode ==
    PlannedAccess(taDiff) = AccessCustom /\ ExplicitFields(taConfig) # {}

\* C5: after reconciliation exactly one of the two modes holds: a fixed access
\* level with fully computed permissions, or "custom" access with at least one
\* explicit permission; never both, never neither.
C5_ExactlyOneMode == TACustomized => (FixedMode # CustomMode)

\* What an invocation read of the diff: the handler's inputs.
Observed(dec) ==
    <<dec.hasAccessSet, dec.accessChanged, dec.accessOld, dec.accessNew,
      dec.permissionsChanged, dec.permissionsPresent>>

\* C6: the handler never returns an error; invoked again on the same diff it
\* decides the same when it reads the same inputs, and it leaves the diff the
\* first invocation customized as it is: permissions stay computed or not, the
\* proposed access stays what the first invocation made it.
C6_ReinvocationKeepsDecision ==
    [][(kind = "team_access" /\ taRuns' = taRuns + 1)
         => /\ taDecision'.err = "nil"
            /\ (taPc = "customized"
                  => /\ Observed(taDecision') = Observed(taDecision)
                          => /\ taDecision'.forceCompute = taDecision.forceCompute
                             /\ taDecision'.override = taDecision.override
                     /\ taDiff'.permsComputed = taDiff.permsComputed
                     /\ PlannedAccess(taDiff') = PlannedAccess(taDiff)
                     /\ taDiff' = taDiff)]_vars

\* C6 witness: the second invocation on a diff whose access the first one set
\* to "custom".
C6_Witness ==
    /\ TACustomized
    /\ taRuns = 2
    /\ taDecision.accessChanged
    /\ taDecision.accessNew = AccessCustom
    /\ taDecision.accessOld # AccessCustom
    /\ PlannedAccess(taDiff) = AccessCustom

\* C7: when the API reports not-found, Read returns no error and clears the ID,
\* and Delete returns no error, for both resources.
C7_NotFoundSucceeds ==
    /\ (taLast.op = "Read" /\ taLast.api = "notfound")
          => (taLast.err = "nil" /\ taState.id = "")
    /\ (taLast.op = "Delete" /\ taLast.api = "notfound") => taLast.err = "nil"
    /\ (ncLast.op = "Read" /\ ncLast.api = "notfound")
          => (ncLast.err = "nil" /\ ncState.id = "")
    /\ (ncLast.op = "Delete" /\ ncLast.api = "notfound") => ncLast.err = "nil"

\* C7 witness: a team-access Read that met not-found and cleared the ID.
C7_Witness ==
    /\ kind = "team_access"
    /\ taLast.op = "Read"
    /\ taLast.api = "notfound"
    /\ taLast.err = "nil"
    /\ taState.id = ""

\* C8: TeamAccess.Update is never called for a plan that switches access to
\* "custom" or away from it.
C8_NoUpdateOnCustomSwitch ==
    ~(/\ taLast.op = "Update"
      /\ taLast.api # "none"
      /\ taLast.accessOld # taLast.accessNew
      /\ (taLast.accessOld = AccessCustom \/ taLast.accessNew = AccessCustom))

\* C9: a change of workspace_id (of workspace_external_id) is marked ForceNew
\* exactly when its old and its new value are both non-empty; a diff of an
\* existing resource requires a new one exactly when destination_type changed
\* or one of the two is so marked.
C9_ForceNewIffBothNonEmpty ==
    (kind = "notification" /\ ncPc = "customized")
    => /\ ("workspace_id" \in ncDiff.forcedNewKeys)
            <=> (ncDiff.wsOld # ncDiff.wsNew /\ ncDiff.wsOld # "" /\ ncDiff.wsNew # "")
       /\ ("workspace_external_id" \in ncDiff.forcedNewKeys)
            <=> (ncDiff.extOld # ncDiff.extNew /\ ncDiff.extOld # "" /\ ncDiff.extNew # "")
       /\ ncDiff.id # ""
            => (ncDiff.requiresNew
                  <=> \/ ncDiff.destOld # ncDiff.destNew
                      \/ (ncDiff.wsOld # ncDiff.wsNew /\ ncDiff.wsOld # ""
                          /\ ncDiff.wsNew # "")
                      \/ (ncDiff.extOld # ncDiff.extNew /\ ncDiff.extOld # ""
                          /\ ncDiff.extNew # ""))

\* C9 witness: workspace_id goes from one workspace to another and is marked.
C9_Witness ==
    /\ kind = "notification"
    /\ ncPc = "customized"
    /\ ncDiff.wsOld = "ws-1"
    /\ ncDiff.wsNew = "ws-2"
    /\ "workspace_id" \in ncDiff.forcedNewKeys
    /\ ncDiff.requiresNew

\* C10: with a non-empty token and destination_type slack, Create and Update
\* return an error, call no API method, and leave the ID, the stored state and
\* the remote object as they were.
C10_SlackTokenRefused ==
    [][(/\ \/ \E fail \in {"none", "create", "read"} : resourceTFENotificationConfigurationCreate(fail)
           \/ \E fail \in {"none", "update", "read"} : resourceTFENotificationConfigurationUpdate(fail)
        /\ ncDiff.tokenNew # ""
        /\ ncDiff.destNew = "slack")
         => /\ ncLast'.err # "nil"
            /\ ncLast'.calls = {}
            /\ ncState' = ncState
            /\ ncRemote' = ncRemote]_vars

\* C10 witness: an Update refused for its token, nothing called.
C10_Witness ==
    /\ kind = "notification"
    /\ ncLast.op = "Update"
    /\ ncLast.err = "token"
    /\ ncLast.calls = {}
    /\ ncState.id # ""

=============================================================================
